---- MODULE Spec2Model ----
(***************************************************************************)
(* Model of the stub-descriptor generators of vue-testing-library-stubs    *)
(* (src/vitest.config.ts lines 20-297 hold the library's index module).    *)
(*                                                                         *)
(* A generator call builds a descriptor; the host framework mounts it      *)
(* with bound property values; controls are activated and exposed methods  *)
(* are called.  Text (names, markup, rendered output) is a sequence of     *)
(* tokens, because string concatenation is modelled as sequence            *)
(* concatenation.  A property identifier is the sequence of its            *)
(* characters.  A template is the tree of the nodes the template string    *)
(* of the source spells out.                                               *)
(*                                                                         *)
(* Three further state machines share the variables: the props-aware       *)
(* generators over every property list (SpecProps), the wrapper around a   *)
(* component with an exposed function (SpecWrapper), and one generator     *)
(* called twice with instances mounted from both descriptors (SpecPair).   *)
(***************************************************************************)
EXTENDS Integers, Sequences, FiniteSets, TLC

VARIABLES pc, call, stubs, stub, bound, data, clicks, emitted, returned, nValidate,
          pending, owned, view,
          wrapper, refs, invoked, thrown,
          pair, heap, instances, twins

\* The caller's side: the results of async methods it has not awaited yet,
\* the present contents of the sequences and the record it passed, and the
\* events the last render of the mounted instance went through.
callerVars == <<pending, owned, view>>

\* The state of an exposed-function wrapper and of the instance it embeds.
wrapperVars == <<wrapper, refs, invoked, thrown>>
\* The state of two descriptors of one generator and of their instances.
pairVars == <<pair, heap, instances, twins>>

vars == <<pc, call, stubs, stub, bound, data, clicks, emitted, returned, nValidate,
          pending, owned, view,
          wrapper, refs, invoked, thrown, pair, heap, instances, twins>>

(***************************************************************************)
(* Bounds of the model.                                                    *)
(***************************************************************************)
MaxProps == 2
MaxClicks == 2
MaxCalls == 2
MaxInstances == 3
MaxAppends == 1

(***************************************************************************)
(* JavaScript values, as the templates inspect them.                       *)
(***************************************************************************)
Undef == [t |-> "undefined"]
Null == [t |-> "null"]
NaN == [t |-> "NaN"]
Str(s) == [t |-> "string", s |-> s]
Num(n) == [t |-> "number", n |-> n]
Bool(b) == [t |-> "boolean", b |-> b]
Fn(name) == [t |-> "function", name |-> name]
Arr(items) == [t |-> "array", items |-> items]
Obj(entries) == [t |-> "object", entries |-> entries]

\* typeof x
TypeOf(v) ==
    CASE v.t = "undefined" -> "undefined"
      [] v.t = "null" -> "object"
      [] v.t = "NaN" -> "number"
      [] v.t = "array" -> "object"
      [] OTHER -> v.t

\* Array.isArray(x)
IsArray(v) == v.t = "array"

\* x?.some(y => typeof y === 'function')
SomeFunction(v) == \E i \in 1..Len(v.items) : TypeOf(v.items[i]) = "function"

\* Whether JSON.stringify leaves a value out of an object (and writes null
\* for it inside an array).
JSONSkipped(v) == v.t \in {"undefined", "function"}

\* JSON.stringify(x), as tokens
RECURSIVE JSONstringify(_), JSONitems(_, _), JSONentries(_, _, _)
JSONstringify(v) ==
    CASE v.t = "string" -> <<"\"", v.s, "\"">>
      [] v.t = "number" -> <<ToString(v.n)>>
      [] v.t = "boolean" -> <<IF v.b THEN "true" ELSE "false">>
      [] v.t = "array" -> <<"[">> \o JSONitems(v.items, 1) \o <<"]">>
      [] v.t = "object" -> <<"{">> \o JSONentries(v.entries, 1, TRUE) \o <<"}">>
      [] OTHER -> <<"null">>
JSONitems(items, i) ==
    IF i > Len(items) THEN <<>>
    ELSE (IF i > 1 THEN <<",">> ELSE <<>>)
         \o (IF JSONSkipped(items[i]) THEN <<"null">> ELSE JSONstringify(items[i]))
         \o JSONitems(items, i + 1)
JSONentries(entries, i, first) ==
    IF i > Len(entries) THEN <<>>
    ELSE IF JSONSkipped(entries[i].v) THEN JSONentries(entries, i + 1, first)
    ELSE (IF first THEN <<>> ELSE <<",">>)
         \o <<"\"", entries[i].k, "\"", ":">>
         \o JSONstringify(entries[i].v)
         \o JSONentries(entries, i + 1, FALSE)

\* y.name for one element of an array: a function's declared name, an
\* object's own "name" entry, undefined for the other values.  (Reading it
\* off null or undefined throws; the arrays of the model hold neither.)
RECURSIVE EntryGet(_, _, _)
EntryGet(entries, key, i) ==
    IF i > Len(entries) THEN Undef
    ELSE IF entries[i].k = key THEN entries[i].v
    ELSE EntryGet(entries, key, i + 1)
NameOf(v) ==
    CASE v.t = "function" -> Str(v.name)
      [] v.t = "object" -> EntryGet(v.entries, "name", 1)
      [] OTHER -> Undef

\* x.map(y => y.name)
MapNames(v) == Arr([i \in 1..Len(v.items) |-> NameOf(v.items[i])])

\* The host's text interpolation {{ x }} of a value (toDisplayString): a
\* string as it is, null and undefined as nothing, an array or an object as
\* JSON, the rest by String(x).
ToDisplayString(v) ==
    CASE v.t = "string" -> <<v.s>>
      [] v.t \in {"undefined", "null"} -> <<>>
      [] v.t = "number" -> <<ToString(v.n)>>
      [] v.t = "NaN" -> <<"NaN">>
      [] v.t = "boolean" -> <<IF v.b THEN "true" ELSE "false">>
      [] v.t = "function" -> <<"function ", v.name, "() { }">>
      [] OTHER -> JSONstringify(v)

\* ToNumber(x), the operand conversion of the binary minus.  The strings of
\* the model are not numeric.
ToNumber(v) ==
    CASE v.t = "number" -> v
      [] v.t = "null" -> Num(0)
      [] v.t = "boolean" -> Num(IF v.b THEN 1 ELSE 0)
      [] v.t = "array" /\ Len(v.items) = 0 -> Num(0)
      [] v.t = "array" /\ Len(v.items) = 1 /\ v.items[1].t = "number" -> v.items[1]
      [] OTHER -> NaN

\* a - b
Minus(x, y) ==
    LET a == ToNumber(x)
        b == ToNumber(y)
    IN  IF a = NaN \/ b = NaN THEN NaN ELSE Num(a.n - b.n)

(***************************************************************************)
(* Property identifiers and their normalisation.                           *)
(***************************************************************************)
\* The characters of the model's identifiers: [a-z] is {a, b}, a digit is 1.
Lower == {"a", "b"}
Digits == {"1"}
ToUpperCase(c) == CASE c = "a" -> "A" [] c = "b" -> "B" [] OTHER -> c

Includes(s, c) == \E i \in 1..Len(s) : s[i] = c

\* next.replace(/-([a-z])/g, match => match[1].toUpperCase())
RECURSIVE ReplaceHyphenLower(_, _)
ReplaceHyphenLower(s, i) ==
    IF i > Len(s) THEN <<>>
    ELSE IF s[i] = "-" /\ i < Len(s) /\ s[i + 1] \in Lower
         THEN <<ToUpperCase(s[i + 1])>> \o ReplaceHyphenLower(s, i + 2)
         ELSE <<s[i]>> \o ReplaceHyphenLower(s, i + 1)

\* An element that is an inline object literal and not a string, written as
\* a sequence no identifier is.
InlineObject == <<"{", "}">>

\* typeof (next) === 'string'
IsString(next) == next # InlineObject

\* What propertiesWithValues goes on with for one element: a hyphenated
\* string with its hyphens replaced, anything else as it is.
NormalizeProp(next) ==
    IF IsString(next) /\ Includes(next, "-") THEN ReplaceHyphenLower(next, 1)
    ELSE next

\* ${next} in the template literal: a string as it is, an object by its
\* string conversion.
Interpolate(next) == IF IsString(next) THEN next ELSE <<"[object Object]">>

\* One <li> of the markup: ${next} as the label and as the expression.
Fragment(next) == [label |-> Interpolate(next), expr |-> Interpolate(next)]

\* A variant of propertiesWithValues that puts each fragment before the
\* fragments of the elements ahead of it.
propertiesWithValuesPrepending(props) ==
    [i \in 1..Len(props) |-> Fragment(NormalizeProp(props[Len(props) + 1 - i]))]

\* props.reduce((prev, next) => prev + `<li ...>`, '')
propertiesWithValues(props) ==
    [i \in 1..Len(props) |-> Fragment(NormalizeProp(props[i]))]

\* The host's camelize, /-(\w)/g, which names the key of a declared property.
RECURSIVE Camelize(_, _)
Camelize(s, i) ==
    IF i > Len(s) THEN <<>>
    ELSE IF s[i] = "-" /\ i < Len(s) /\ s[i + 1] # "-"
         THEN <<ToUpperCase(s[i + 1])>> \o Camelize(s, i + 2)
         ELSE <<s[i]>> \o Camelize(s, i + 1)
PropKey(p) == Camelize(p, 1)
\* The keys of a props array: the host takes its string elements and passes
\* over the others.
PropKeys(props) ==
    {PropKey(props[i]) : i \in {j \in 1..Len(props) : IsString(props[j])}}

(***************************************************************************)
(* Evaluation of a fragment's expression against a mounted instance.  An   *)
(* expression without a hyphen is one identifier; a hyphen that            *)
(* normalisation left in is the binary minus between its operands.         *)
(***************************************************************************)
\* The operands of a - b - c, left to right.
RECURSIVE Operands(_, _, _)
Operands(s, i, cur) ==
    IF i > Len(s) THEN <<cur>>
    ELSE IF s[i] = "-" THEN <<cur>> \o Operands(s, i + 1, <<>>)
    ELSE Operands(s, i + 1, Append(cur, s[i]))

RECURSIVE Literal(_, _, _)
Literal(op, i, acc) ==
    IF i > Len(op) THEN acc ELSE Literal(op, i + 1, acc * 10 + 1)

\* An identifier resolves to the bound value of the property of that key,
\* and to undefined when the instance has none; digits are a literal.
EvalOperand(op, props) ==
    IF \A i \in 1..Len(op) : op[i] \in Digits THEN Num(Literal(op, 1, 0))
    ELSE IF op \in DOMAIN props THEN props[op]
    ELSE Undef

RECURSIVE EvalMinus(_, _, _, _)
EvalMinus(ops, i, acc, props) ==
    IF i > Len(ops) THEN acc
    ELSE EvalMinus(ops, i + 1, Minus(acc, EvalOperand(ops[i], props)), props)

EvalExpr(expr, props) ==
    LET ops == Operands(expr, 1, <<>>)
    IN  EvalMinus(ops, 2, EvalOperand(ops[1], props), props)

(***************************************************************************)
(* Rendering.                                                              *)
(***************************************************************************)
\* Whether the host can compile a fragment's expression: the string
\* conversion of an object is not an expression.
IsExpression(expr) == expr # <<"[object Object]">>

\* Whether the host can compile a template into a render function.
Compiles(tpl) == \A i \in 1..Len(tpl.items) : IsExpression(tpl.items[i].expr)

\* {{ typeof(x) === 'object' ? JSON.stringify(x) : x }}
ObjectOrValue(x) ==
    IF TypeOf(x) = "object" THEN JSONstringify(x) ELSE ToDisplayString(x)

\* One <li> of propertiesWithValues, rendered.
RenderFragment(frag, props) ==
    LET x == EvalExpr(frag.expr, props)
    IN  IF TypeOf(x) = "undefined" THEN <<>>
        ELSE IF IsArray(x)
             THEN IF SomeFunction(x)
                  THEN frag.label \o <<"-">> \o JSONstringify(MapNames(x))
                  ELSE frag.label \o <<"-">> \o ObjectOrValue(x)
             ELSE frag.label \o <<"-">> \o ObjectOrValue(x)

RECURSIVE RenderItems(_, _, _)
RenderItems(items, i, props) ==
    IF i > Len(items) THEN <<>>
    ELSE RenderFragment(items[i], props) \o RenderItems(items, i + 1, props)

\* The marker text of a template: its static text, then {{validateCalled}}.
RenderMarker(tpl, d) ==
    tpl.marker \o (IF tpl.flag THEN ToDisplayString(Bool(d.validateCalled)) ELSE <<>>)

\* event.value of an event spec: undefined when the spec has none.
EventValue(ev) == IF ev.has THEN ev.value ELSE Undef

\* A variant of RenderButtons that lists the v-for controls last to first.
RenderButtonsReversed(tpl, d) ==
    CASE tpl.button.kind = "static" -> <<tpl.button.label>>
      [] tpl.button.kind = "each" ->
            [i \in 1..Len(d.events) |-> d.events[Len(d.events) + 1 - i].name]
      [] OTHER -> <<>>

\* The controls of a template: the label of each <button>, in order.
RenderButtons(tpl, d) ==
    CASE tpl.button.kind = "static" -> <<tpl.button.label>>
      [] tpl.button.kind = "each" ->
            [i \in 1..Len(d.events) |-> ToDisplayString(Str(d.events[i].name))[1]]
      [] OTHER -> <<>>

\* The text of the rendered element: the marker, the fragments of the <ul>,
\* the labels of the controls.
RenderText(tpl, d, props) ==
    RenderMarker(tpl, d)
    \o (IF tpl.list THEN RenderItems(tpl.items, 1, props) ELSE <<>>)
    \o RenderButtons(tpl, d)

\* A variant of ClickEmits that passes emittedValues as one array argument
\* instead of spreading it.
ClickEmitsUnspread(tpl, d, i) ==
    CASE tpl.button.kind = "static" ->
            [name |-> tpl.button.event, args |-> <<Arr(d.emittedValues)>>]
      [] tpl.button.kind = "each" ->
            [name |-> d.events[i].name, args |-> <<EventValue(d.events[i])>>]

\* A variant of ClickEmits that passes no argument for a spec without value.
ClickEmitsOmitsAbsent(tpl, d, i) ==
    CASE tpl.button.kind = "static" ->
            [name |-> tpl.button.event, args |-> d.emittedValues]
      [] tpl.button.kind = "each" ->
            [name |-> d.events[i].name,
             args |-> IF d.events[i].has THEN <<d.events[i].value>> ELSE <<>>]

\* What activating control i emits: $emit(name, ...args).
ClickEmits(tpl, d, i) ==
    CASE tpl.button.kind = "static" ->
            [name |-> tpl.button.event, args |-> d.emittedValues]
      [] tpl.button.kind = "each" ->
            [name |-> d.events[i].name, args |-> <<EventValue(d.events[i])>>]

(***************************************************************************)
(* Descriptors.                                                            *)
(***************************************************************************)
\* A template: the marker text (followed by {{validateCalled}} when flag),
\* the <ul> of property fragments when list, and the controls.
Template(marker, flag, list, items, button) ==
    [marker |-> marker, flag |-> flag, list |-> list, items |-> items,
     button |-> button]

NoButton == [kind |-> "none", event |-> "", label |-> ""]
\* <button @click="$emit('${emittedEvent}', ...emittedValues)">${emittedEvent}</button>
EmitButton(emittedEvent) ==
    [kind |-> "static", event |-> emittedEvent, label |-> emittedEvent]
\* <button v-for="event in events" @click="$emit(event.name, event.value)">{{event.name}}</button>
EachEventButton == [kind |-> "each", event |-> "", label |-> ""]

\* What data() returns; keys are the names it declares.
Data(keys, emittedValues, events, validateCalled) ==
    [keys |-> keys, emittedValues |-> emittedValues, events |-> events,
     validateCalled |-> validateCalled]
NoData == Data({}, <<>>, <<>>, FALSE)

\* A method: whether it sets $data.validateCalled, and what it returns.
Method(name, flags, result) == [name |-> name, flags |-> flags, result |-> result]
Validated(valid) == [t |-> "Validated", valid |-> valid, errors |-> <<>>]

\* The methods declared async: a call returns a promise of the result.
AsyncMethods == {"validate"}

\* The present contents of the objects a generator call was given: the
\* property identifiers, the emitted values, the event specs, the props
\* record.
Owned(props, emittedValues, events, record) ==
    [props |-> props, emittedValues |-> emittedValues, events |-> events,
     record |-> record]

\* A variant of Live for a data() that returns copies taken at generation.
LiveCopied(d, o) == d

\* What data() { return { emittedValues } } (or { events }) holds now: the
\* very sequence the generator was given, with its present contents.
Live(d, o) ==
    [d EXCEPT !.emittedValues = IF "emittedValues" \in d.keys THEN o.emittedValues ELSE @,
              !.events = IF "events" \in d.keys THEN o.events ELSE @]

\* What the handlers of the last render read: the data as it is now, and of
\* the events those the v-for went through when it rendered.
Seen(d, o, v) == [Live(d, o) EXCEPT !.events = v]

\* A parameter declared with a default: the default stands in for an argument
\* that is omitted (undefined).
DefaultParam(arg, default) == IF arg = Undef THEN default ELSE arg

NoPair == <<>>

Descriptor(keys, name, template, props, d, methods) ==
    [keys |-> keys, name |-> name, template |-> template, props |-> props,
     data |-> d, methods |-> methods]

\* A variant of getStub whose template holds the component name alone.
getStubBare(componentName) ==
    Descriptor({"template", "name"},
               <<componentName, "-stub">>,
               Template(<<componentName>>, FALSE, FALSE, <<>>, NoButton),
               <<>>, NoData, {})

getStub(componentName) ==
    Descriptor({"template", "name"},
               <<componentName, "-stub">>,
               Template(<<componentName, "-stub">>, FALSE, FALSE, <<>>, NoButton),
               <<>>, NoData, {})

\* A variant of getStubWithProps that exports the normalised identifiers.
getStubWithPropsNormalised(componentName, props) ==
    Descriptor({"name", "template", "props"},
               <<componentName, "-stubWithProps">>,
               Template(<<componentName, "-stub">>, FALSE, TRUE,
                        propertiesWithValues(props), NoButton),
               [i \in 1..Len(props) |-> NormalizeProp(props[i])], NoData, {})

getStubWithProps(componentName, props) ==
    Descriptor({"name", "template", "props"},
               <<componentName, "-stubWithProps">>,
               Template(<<componentName, "-stub">>, FALSE, TRUE,
                        propertiesWithValues(props), NoButton),
               props, NoData, {})

\* A variant of getEmittingStub whose reset answers as validate does.
getEmittingStubResetValidates(componentName, emittedEvent, emittedValues) ==
    Descriptor({"name", "template", "data", "methods"},
               <<componentName, "-emittingStub">>,
               Template(<<componentName, "-stub">>, FALSE, FALSE, <<>>,
                        EmitButton(emittedEvent)),
               <<>>,
               Data({"emittedValues"}, emittedValues, <<>>, FALSE),
               {Method("validate", FALSE, Validated(TRUE)),
                Method("reset", FALSE, Validated(TRUE)),
                Method("resetValidation", FALSE, Undef)})

getEmittingStub(componentName, emittedEvent, emittedValues) ==
    Descriptor({"name", "template", "data", "methods"},
               <<componentName, "-emittingStub">>,
               Template(<<componentName, "-stub">>, FALSE, FALSE, <<>>,
                        EmitButton(emittedEvent)),
               <<>>,
               Data({"emittedValues"}, emittedValues, <<>>, FALSE),
               {Method("validate", FALSE, Validated(TRUE)),
                Method("reset", FALSE, Undef),
                Method("resetValidation", FALSE, Undef)})

\* A variant of getEmittingStubWithProps that takes its array of values for
\* one value of a rest parameter.
getEmittingStubWithPropsNesting(componentName, emittedEvent, emittedValues, props) ==
    Descriptor({"name", "template", "data", "props", "methods"},
               <<componentName, "-emittingStubWithProps">>,
               Template(<<componentName, "-stub">>, FALSE, TRUE,
                        propertiesWithValues(props), EmitButton(emittedEvent)),
               props,
               Data({"emittedValues"}, <<Arr(emittedValues)>>, <<>>, FALSE),
               {Method("validate", FALSE, Validated(TRUE)),
                Method("reset", FALSE, Undef),
                Method("resetValidation", FALSE, Undef)})

\* A variant of getEmittingStubWithProps whose marker is its name.
getEmittingStubWithPropsNameMarker(componentName, emittedEvent, emittedValues, props) ==
    Descriptor({"name", "template", "data", "props", "methods"},
               <<componentName, "-emittingStubWithProps">>,
               Template(<<componentName, "-emittingStubWithProps">>, FALSE, TRUE,
                        propertiesWithValues(props), EmitButton(emittedEvent)),
               props,
               Data({"emittedValues"}, emittedValues, <<>>, FALSE),
               {Method("validate", FALSE, Validated(TRUE)),
                Method("reset", FALSE, Undef),
                Method("resetValidation", FALSE, Undef)})

getEmittingStubWithProps(componentName, emittedEvent, emittedValues, props) ==
    Descriptor({"name", "template", "data", "props", "methods"},
               <<componentName, "-emittingStubWithProps">>,
               Template(<<componentName, "-stub">>, FALSE, TRUE,
                        propertiesWithValues(props), EmitButton(emittedEvent)),
               props,
               Data({"emittedValues"}, emittedValues, <<>>, FALSE),
               {Method("validate", FALSE, Validated(TRUE)),
                Method("reset", FALSE, Undef),
                Method("resetValidation", FALSE, Undef)})

\* A variant of getMultiEmittingStubWithProps named as getEmittingStubWithProps.
getMultiEmittingStubWithPropsMisnamed(componentName, events, props) ==
    Descriptor({"name", "template", "data", "props"},
               <<componentName, "-emittingStubWithProps">>,
               Template(<<componentName, "-stub">>, FALSE, TRUE,
                        propertiesWithValues(props), EachEventButton),
               props,
               Data({"events"}, <<>>, events, FALSE),
               {})

\* A variant of getMultiEmittingStubWithProps with the methods of the
\* single-event emitting stubs.
getMultiEmittingStubWithPropsAndMethods(componentName, events, props) ==
    Descriptor({"name", "template", "data", "props", "methods"},
               <<componentName, "-multiEmittingStubWithProps">>,
               Template(<<componentName, "-stub">>, FALSE, TRUE,
                        propertiesWithValues(props), EachEventButton),
               props,
               Data({"events"}, <<>>, events, FALSE),
               {Method("validate", FALSE, Validated(TRUE)),
                Method("reset", FALSE, Undef),
                Method("resetValidation", FALSE, Undef)})

getMultiEmittingStubWithProps(componentName, events, props) ==
    Descriptor({"name", "template", "data", "props"},
               <<componentName, "-multiEmittingStubWithProps">>,
               Template(<<componentName, "-stub">>, FALSE, TRUE,
                        propertiesWithValues(props), EachEventButton),
               props,
               Data({"events"}, <<>>, events, FALSE),
               {})

\* A variant of getExposedValidateStub whose marker ends with the outcome of
\* the validation once the validator was called.
getExposedValidateStubShowingValid(componentName, isValid) ==
    Descriptor({"name", "template", "methods", "data"},
               <<componentName, "-exposedValidateStub">>,
               Template(<<componentName, "-stub", "-validated-",
                          ToDisplayString(DefaultParam(isValid, Bool(TRUE)))[1]>>,
                        FALSE, FALSE, <<>>, NoButton),
               <<>>,
               Data({"validateCalled"}, <<>>, <<>>, FALSE),
               {Method("validate", TRUE, Validated(DefaultParam(isValid, Bool(TRUE)).b)),
                Method("resetValidation", FALSE, Undef)})

\* A variant of getExposedValidateStub whose validator leaves validateCalled.
getExposedValidateStubNoFlag(componentName, isValid) ==
    Descriptor({"name", "template", "methods", "data"},
               <<componentName, "-exposedValidateStub">>,
               Template(<<componentName, "-stub", "-validated-">>, TRUE, FALSE, <<>>,
                        NoButton),
               <<>>,
               Data({"validateCalled"}, <<>>, <<>>, FALSE),
               {Method("validate", FALSE, Validated(DefaultParam(isValid, Bool(TRUE)).b)),
                Method("resetValidation", FALSE, Undef)})

getExposedValidateStub(componentName, isValid) ==
    Descriptor({"name", "template", "methods", "data"},
               <<componentName, "-exposedValidateStub">>,
               Template(<<componentName, "-stub", "-validated-">>, TRUE, FALSE, <<>>,
                        NoButton),
               <<>>,
               Data({"validateCalled"}, <<>>, <<>>, FALSE),
               {Method("validate", TRUE, Validated(DefaultParam(isValid, Bool(TRUE)).b)),
                Method("resetValidation", FALSE, Undef)})

\* A variant of getExposedValidateStubWithProps whose validator always passes.
getExposedValidateStubWithPropsAlwaysValid(componentName, isValid, props) ==
    Descriptor({"name", "template", "methods", "data", "props"},
               <<componentName, "-exposedValidateStubWithProps">>,
               Template(<<componentName, "-stub", "-validated-">>, TRUE, TRUE,
                        propertiesWithValues(props), NoButton),
               props,
               Data({"validateCalled"}, <<>>, <<>>, FALSE),
               {Method("validate", TRUE, Validated(TRUE)),
                Method("resetValidation", FALSE, Undef)})

getExposedValidateStubWithProps(componentName, isValid, props) ==
    Descriptor({"name", "template", "methods", "data", "props"},
               <<componentName, "-exposedValidateStubWithProps">>,
               Template(<<componentName, "-stub", "-validated-">>, TRUE, TRUE,
                        propertiesWithValues(props), NoButton),
               props,
               Data({"validateCalled"}, <<>>, <<>>, FALSE),
               {Method("validate", TRUE, Validated(DefaultParam(isValid, Bool(TRUE)).b)),
                Method("resetValidation", FALSE, Undef)})

(***************************************************************************)
(* The wrapper around a component with an exposed function.                *)
(***************************************************************************)
\* A component definition object: its name option and its methods, each with
\* what it returns.
Component(name, methods) == [t |-> "component", name |-> name, methods |-> methods]

\* The string x + '...' concatenates for x: a string as it is, a plain object
\* (a component definition is one) by Object.prototype.toString.
StringOf(v) ==
    CASE v.t = "string" -> v.s
      [] v.t \in {"object", "component"} -> "[object Object]"

\* if (x): whether a value is truthy.
Truthy(v) ==
    CASE v.t \in {"undefined", "null", "NaN"} -> FALSE
      [] v.t = "boolean" -> v.b
      [] v.t = "number" -> v.n # 0
      [] v.t = "string" -> v.s # ""
      [] OTHER -> TRUE

\* Object.keys(x): the own keys, in insertion order.
ObjectKeys(o) == [i \in 1..Len(o.entries) |-> o.entries[i].k]

\* One :key="key" binding on the embedded component.
Binding(next) == [attr |-> next, expr |-> next]

\* A variant of PropIdentifiers that binds the keys last to first.
PropIdentifiersReversed(props) ==
    IF Truthy(props)
    THEN LET keys == ObjectKeys(props)
         IN  [i \in 1..Len(keys) |-> Binding(keys[Len(keys) + 1 - i])]
    ELSE <<>>

\* propIdentifiersForComponentAlias: '' without props, else
\* Object.keys(props).reduce((prev, next) => prev + `:${next}="${next}" `, '')
PropIdentifiers(props) ==
    IF Truthy(props)
    THEN LET keys == ObjectKeys(props)
         IN  [i \in 1..Len(keys) |-> Binding(keys[i])]
    ELSE <<>>

\* localProps: {} without props, else localProps[x] = {} for every key x.
LocalProps(props) ==
    IF Truthy(props)
    THEN LET keys == ObjectKeys(props)
         IN  [k \in {keys[i] : i \in 1..Len(keys)} |-> Obj(<<>>)]
    ELSE <<>>

\* <div><component-alias ${bindings} ref="ref" />
\*      <button @click="exposedFn">${exposedFn}</button></div>
WrapperTemplate(bindings, exposedFn) ==
    [child |-> "component-alias", bindings |-> bindings, ref |-> "ref",
     button |-> [handler |-> "exposedFn", label |-> exposedFn]]

getTemplateComponentForExposedFunction(componentAlias, exposedFn, props) ==
    [name |-> <<StringOf(componentAlias), "-withExposedFunction">>,
     template |-> WrapperTemplate(PropIdentifiers(props), exposedFn),
     components |-> [componentAlias |-> componentAlias],
     props |-> LocalProps(props),
     methods |-> [exposedFn |-> [calls |-> exposedFn]]]

NoWrapper ==
    [name |-> <<>>, template |-> WrapperTemplate(<<>>, ""),
     components |-> [componentAlias |-> Component("", {})],
     props |-> <<>>, methods |-> [exposedFn |-> [calls |-> ""]]]

\* The instance the host creates for the embedded component and stores under
\* $refs.ref: what a call through the reference reaches.
EmbeddedInstance(component) == [id |-> "ref", methods |-> component.methods]

\* One call of a method of an instance.
Invocation(on, method, args) == [on |-> on, method |-> method, args |-> args]

\* A variant of methods_exposedFn that hands the click event to the method,
\* as a handler bound straight to the method would.
methods_exposedFnPassingEvent(method, r) ==
    IF \E m \in r.ref.methods : m.name = method.calls
    THEN [calls |-> <<Invocation(r.ref.id, method.calls, <<"event">>)>>,
          thrown |-> "", returned |-> Undef]
    ELSE [calls |-> <<>>, thrown |-> "TypeError", returned |-> Undef]

\* A variant of methods_exposedFn that calls the member only if there is one.
methods_exposedFnChecked(method, r) ==
    IF \E m \in r.ref.methods : m.name = method.calls
    THEN [calls |-> <<Invocation(r.ref.id, method.calls, <<>>)>>,
          thrown |-> "", returned |-> Undef]
    ELSE [calls |-> <<>>, thrown |-> "", returned |-> Undef]

\* exposedFn: function () { this.$refs.ref[exposedFn](); } against the
\* $refs r of the wrapper's instance.  Calling a member the instance does
\* not have throws a TypeError.
methods_exposedFn(method, r) ==
    IF \E m \in r.ref.methods : m.name = method.calls
    THEN [calls |-> <<Invocation(r.ref.id, method.calls, <<>>)>>,
          thrown |-> "", returned |-> Undef]
    ELSE [calls |-> <<>>, thrown |-> "TypeError", returned |-> Undef]

(***************************************************************************)
(* The inputs the model draws.                                             *)
(***************************************************************************)
ComponentNames == {"MyComponent", "TestComponent"}
EventNames == {"save", "cancel"}

\* title-like names, hyphenated names, and a hyphenated name whose second
\* segment is a number (as in step-1).
PropIdents ==
    { <<"a">>, <<"b">>, <<"a", "-", "b">>, <<"a", "-", "b", "-", "a">>,
      <<"a", "-", "1">> }
PropLists(n) == UNION {[1..k -> PropIdents] : k \in 0..n}
\* Property lists over two identifiers and an inline object.
ObjectPropLists(n) ==
    UNION {[1..k -> {<<"a">>, <<"a", "-", "b">>, InlineObject}] : k \in 0..n}
SmallPropLists == { <<>>, << <<"a">> >>, << <<"a", "-", "b">> >> }

PropValues ==
    { Undef, Null, Str("Hello World"), Num(42), Bool(TRUE), Arr(<<>>),
      Arr(<<Str("item1"), Str("item2")>>),
      Arr(<<Fn("validateEmail"), Fn("validateLength")>>),
      Arr(<<Fn("validateEmail"), Str("item1")>>),
      Obj(<<[k |-> "foo", v |-> Str("bar")]>>) }

EmittedValueLists ==
    { <<>>, <<Obj(<<[k |-> "id", v |-> Num(123)]>>)>>,
      <<Str("value1"), Num(42), Obj(<<[k |-> "key", v |-> Str("value")]>>)>> }

\* The isValid argument: omitted, true or false.
IsValidArgs == {Undef, Bool(TRUE), Bool(FALSE)}

\* Components to wrap: one with two methods, one of which returns a value,
\* and one that has only reset.
Components ==
    { Component("MockComponent",
                {[name |-> "reset", result |-> Undef],
                 [name |-> "testMethod", result |-> Str("called")]}),
      Component("ChildComponent", {[name |-> "reset", result |-> Undef]}) }
ExposedFns == {"reset", "testMethod"}

\* The props argument of the wrapper: omitted, or a record.
PropsRecords ==
    { Undef, Obj(<<>>),
      Obj(<<[k |-> "value", v |-> Str("test")]>>),
      Obj(<<[k |-> "value", v |-> Str("test")], [k |-> "count", v |-> Num(42)]>>),
      Obj(<<[k |-> "count", v |-> Num(0)], [k |-> "value", v |-> Str("x")]>>) }

\* An event spec {name, value?}.
EmittedEvent(name, has, value) == [name |-> name, has |-> has, value |-> value]
EventLists ==
    { <<>>,
      <<EmittedEvent("save", TRUE, Obj(<<[k |-> "id", v |-> Num(1)]>>)),
        EmittedEvent("cancel", FALSE, Undef)>>,
      <<EmittedEvent("cancel", TRUE, Str("cancelData")),
        EmittedEvent("save", TRUE, Str("saveData"))>>,
      <<EmittedEvent("save", TRUE, Str("saveData")),
        EmittedEvent("save", TRUE, Null)>> }

(***************************************************************************)
(* The state machine: a generator is called, the host mounts the           *)
(* descriptor, and then controls are activated, methods called and         *)
(* property values rebound.                                                *)
(***************************************************************************)
Call(gen, componentName, emittedEvent, emittedValues, events, isValid, props) ==
    [gen |-> gen, componentName |-> componentName, emittedEvent |-> emittedEvent,
     emittedValues |-> emittedValues, events |-> events, isValid |-> isValid,
     props |-> props]
NoCall == Call("", "", "", <<>>, <<>>, Undef, <<>>)

Init ==
    /\ pc = "start"
    /\ call = NoCall
    /\ stub = Descriptor({}, <<>>, Template(<<>>, FALSE, FALSE, <<>>, NoButton),
                         <<>>, NoData, {})
    /\ bound = <<>>
    /\ data = NoData
    /\ clicks = <<>>
    /\ emitted = <<>>
    /\ returned = Undef
    /\ nValidate = 0
    /\ stubs = <<>>
    /\ wrapper = NoWrapper
    /\ refs = <<>>
    /\ invoked = <<>>
    /\ thrown = ""
    /\ pair = NoPair
    /\ heap = <<>>
    /\ instances = <<>>
    /\ twins = <<>>
    /\ pending = 0
    /\ owned = Owned(<<>>, <<>>, <<>>, Undef)
    /\ view = <<>>

\* const stub = {}; stub[componentName] = {...}; return stub
StubFor(componentName, d) == [k \in {componentName} |-> d]

\* A variant of Reduced whose callback writes each normalised identifier
\* back into the array.
ReducedInPlace(props) == [i \in 1..Len(props) |-> NormalizeProp(props[i])]

\* The caller's array of property identifiers after props.reduce(...) went
\* through it: reduce reads the elements, and next.replace(...) builds a new
\* string.
Reduced(props) == props

\* A generator returns; the descriptor the host will mount is the one the
\* returned dictionary holds under the component name.
Generated(c, d) ==
    /\ pc' = "generated"
    /\ call' = c
    /\ stubs' = StubFor(c.componentName, d)
    /\ stub' = StubFor(c.componentName, d)[c.componentName]
    /\ owned' = Owned(Reduced(c.props), c.emittedValues, c.events, Undef)
    /\ UNCHANGED <<bound, data, clicks, emitted, returned, nValidate>>
    /\ UNCHANGED <<pending, view, wrapperVars, pairVars>>

CallGetStub ==
    /\ pc = "start"
    /\ \E n \in ComponentNames :
           Generated(Call("getStub", n, "", <<>>, <<>>, Undef, <<>>), getStub(n))

CallGetStubWithProps(lists) ==
    /\ pc = "start"
    /\ \E n \in ComponentNames, ps \in lists :
           Generated(Call("getStubWithProps", n, "", <<>>, <<>>, Undef, ps),
                     getStubWithProps(n, ps))

CallGetEmittingStub ==
    /\ pc = "start"
    /\ \E n \in ComponentNames, e \in EventNames, vals \in EmittedValueLists :
           Generated(Call("getEmittingStub", n, e, vals, <<>>, Undef, <<>>),
                     getEmittingStub(n, e, vals))

CallGetEmittingStubWithProps(valueLists, lists) ==
    /\ pc = "start"
    /\ \E n \in ComponentNames, e \in EventNames, vals \in valueLists, ps \in lists :
           Generated(Call("getEmittingStubWithProps", n, e, vals, <<>>, Undef, ps),
                     getEmittingStubWithProps(n, e, vals, ps))

CallGetMultiEmittingStubWithProps(eventLists, lists) ==
    /\ pc = "start"
    /\ \E n \in ComponentNames, evs \in eventLists, ps \in lists :
           Generated(Call("getMultiEmittingStubWithProps", n, "", <<>>, evs, Undef, ps),
                     getMultiEmittingStubWithProps(n, evs, ps))

CallGetExposedValidateStub ==
    /\ pc = "start"
    /\ \E n \in ComponentNames, isValid \in IsValidArgs :
           Generated(Call("getExposedValidateStub", n, "", <<>>, <<>>, isValid, <<>>),
                     getExposedValidateStub(n, isValid))

CallGetExposedValidateStubWithProps(lists) ==
    /\ pc = "start"
    /\ \E n \in ComponentNames, isValid \in IsValidArgs, ps \in lists :
           Generated(Call("getExposedValidateStubWithProps", n, "", <<>>, <<>>, isValid, ps),
                     getExposedValidateStubWithProps(n, isValid, ps))

\* The host mounts the descriptor: data() is called, and every declared
\* property is bound to the value the caller passes (undefined when omitted).
Mount ==
    /\ pc = "generated"
    /\ Compiles(stub.template)
    /\ pc' = "mounted"
    /\ \E b \in [PropKeys(stub.props) -> PropValues] : bound' = b
    /\ data' = stub.data
    /\ view' = Live(stub.data, owned).events
    /\ UNCHANGED <<call, stubs, stub, clicks, emitted, returned, nValidate>>
    /\ UNCHANGED <<pending, owned, wrapperVars, pairVars>>

\* The parent passes a new value for one declared property; the instance
\* renders again.
Rebind ==
    /\ pc = "mounted"
    /\ \E k \in DOMAIN bound, v \in PropValues :
          /\ bound[k] # v
          /\ bound' = [bound EXCEPT ![k] = v]
    /\ view' = Live(data, owned).events
    /\ UNCHANGED <<pc, call, stubs, stub, data, clicks, emitted, returned, nValidate>>
    /\ UNCHANGED <<pending, owned, wrapperVars, pairVars>>

\* Control i of the last render is activated: its @click handler emits.
Click ==
    /\ pc = "mounted"
    /\ Len(clicks) < MaxClicks
    /\ \E i \in 1..Len(RenderButtons(stub.template, Seen(data, owned, view))) :
          /\ clicks' = Append(clicks, i)
          /\ emitted' = Append(emitted,
                               ClickEmits(stub.template, Seen(data, owned, view), i))
    /\ UNCHANGED <<pc, call, stubs, stub, bound, data, returned, nValidate>>
    /\ UNCHANGED <<callerVars, wrapperVars, pairVars>>

\* A variant of Invoke whose async methods run their body in a later task:
\* the call returns the promise with the body's writes still to come.
InvokeDeferringBody(name) ==
    /\ pc = "mounted"
    /\ \E m \in stub.methods :
          /\ m.name = name
          /\ data' = IF m.flags /\ name \notin AsyncMethods
                     THEN [data EXCEPT !.validateCalled = TRUE] ELSE data
          /\ returned' = m.result
    /\ pending' = IF name \in AsyncMethods THEN pending + 1 ELSE pending
    /\ UNCHANGED <<pc, call, stubs, stub, bound, clicks, emitted>>
    /\ UNCHANGED <<owned, view, wrapperVars, pairVars>>

\* A variant of Invoke whose resetValidation clears validateCalled.
InvokeClearing(name) ==
    /\ pc = "mounted"
    /\ \E m \in stub.methods :
          /\ m.name = name
          /\ data' = IF m.flags THEN [data EXCEPT !.validateCalled = TRUE]
                     ELSE IF name = "resetValidation"
                          THEN [data EXCEPT !.validateCalled = FALSE]
                          ELSE data
          /\ returned' = m.result
    /\ pending' = IF name \in AsyncMethods THEN pending + 1 ELSE pending
    /\ UNCHANGED <<pc, call, stubs, stub, bound, clicks, emitted>>
    /\ UNCHANGED <<owned, view, wrapperVars, pairVars>>

\* An exposed method of the mounted instance is called: its body runs, and
\* the call returns (a promise of its result when it is async, which the
\* caller has yet to await).
Invoke(name) ==
    /\ pc = "mounted"
    /\ \E m \in stub.methods :
          /\ m.name = name
          /\ data' = IF m.flags THEN [data EXCEPT !.validateCalled = TRUE] ELSE data
          /\ returned' = m.result
    /\ pending' = IF name \in AsyncMethods THEN pending + 1 ELSE pending
    /\ UNCHANGED <<pc, call, stubs, stub, bound, clicks, emitted>>
    /\ UNCHANGED <<owned, view, wrapperVars, pairVars>>

Validate ==
    /\ nValidate < MaxCalls
    /\ Invoke("validate")
    /\ nValidate' = nValidate + 1

Reset == Invoke("reset") /\ UNCHANGED nValidate

\* The caller awaits a result it holds.
Await ==
    /\ pc = "mounted"
    /\ pending > 0
    /\ pending' = pending - 1
    /\ UNCHANGED <<pc, call, stubs, stub, bound, data, clicks, emitted, returned, nValidate>>
    /\ UNCHANGED <<owned, view, wrapperVars, pairVars>>

ResetValidation == Invoke("resetValidation") /\ UNCHANGED nValidate

Next ==
    \/ CallGetStub
    \/ CallGetStubWithProps(SmallPropLists)
    \/ CallGetEmittingStub
    \/ CallGetEmittingStubWithProps(EmittedValueLists, SmallPropLists)
    \/ CallGetMultiEmittingStubWithProps(EventLists, SmallPropLists)
    \/ CallGetExposedValidateStub
    \/ CallGetExposedValidateStubWithProps(SmallPropLists)
    \/ Mount
    \/ Rebind
    \/ Click
    \/ Validate
    \/ Reset
    \/ ResetValidation
    \/ Await

Spec == Init /\ [][Next]_vars

\* The props-aware generators over every property list up to MaxProps, each
\* mounted with every binding of its declared properties.
NextProps ==
    \/ CallGetStubWithProps(PropLists(MaxProps))
    \/ CallGetEmittingStubWithProps({<<>>}, PropLists(MaxProps))
    \/ CallGetMultiEmittingStubWithProps({<<>>}, PropLists(MaxProps))
    \/ CallGetExposedValidateStubWithProps(PropLists(MaxProps))
    \/ Mount

SpecProps == Init /\ [][NextProps]_vars

\* The host fails to mount a descriptor whose template it cannot compile.
MountFails ==
    /\ pc = "generated"
    /\ ~Compiles(stub.template)
    /\ pc' = "failed"
    /\ thrown' = "SyntaxError"
    /\ UNCHANGED <<call, stubs, stub, bound, data, clicks, emitted, returned, nValidate>>
    /\ UNCHANGED <<callerVars, wrapper, refs, invoked, pairVars>>

\* The props-aware generators over property lists that may hold an inline
\* object among the identifiers.
NextObjects ==
    \/ CallGetStubWithProps(ObjectPropLists(MaxProps))
    \/ CallGetEmittingStubWithProps({<<>>}, ObjectPropLists(MaxProps))
    \/ CallGetMultiEmittingStubWithProps({<<>>}, ObjectPropLists(MaxProps))
    \/ CallGetExposedValidateStubWithProps(ObjectPropLists(MaxProps))
    \/ Mount
    \/ MountFails

SpecObjects == Init /\ [][NextObjects]_vars

(***************************************************************************)
(* The wrapper's state machine: the generator is called, the host mounts   *)
(* the wrapper (and the component it embeds), the control is activated.    *)
(***************************************************************************)
WrapperCall(componentAlias, exposedFn, props) ==
    [gen |-> "getTemplateComponentForExposedFunction",
     componentAlias |-> componentAlias, exposedFn |-> exposedFn, props |-> props]

CallGetTemplateComponentForExposedFunction ==
    /\ pc = "start"
    /\ \E c \in Components, fn \in ExposedFns, ps \in PropsRecords :
          /\ call' = WrapperCall(c, fn, ps)
          /\ owned' = Owned(<<>>, <<>>, <<>>, ps)
          /\ wrapper' = getTemplateComponentForExposedFunction(c, fn, ps)
    /\ pc' = "wrapped"
    /\ UNCHANGED <<stubs, stub, bound, data, clicks, emitted, returned, nValidate>>
    /\ UNCHANGED <<pending, view, refs, invoked, thrown, pairVars>>

\* The host mounts the wrapper: every declared property is bound to the
\* value the caller passes, the registered component is instantiated and
\* the instance is stored under $refs.ref.
MountWrapper ==
    /\ pc = "wrapped"
    /\ pc' = "wrapperMounted"
    /\ \E b \in [DOMAIN wrapper.props -> {Undef, Str("test")}] : bound' = b
    /\ refs' = [ref |-> EmbeddedInstance(wrapper.components.componentAlias)]
    /\ UNCHANGED <<call, stubs, stub, data, clicks, emitted, returned, nValidate>>
    /\ UNCHANGED <<callerVars, wrapper, invoked, thrown, pairVars>>

\* The wrapper's control is activated: @click="exposedFn".
ClickWrapper ==
    /\ pc = "wrapperMounted"
    /\ Len(clicks) < MaxClicks
    /\ LET r == methods_exposedFn(wrapper.methods.exposedFn, refs)
       IN  /\ clicks' = Append(clicks, 1)
           /\ invoked' = invoked \o r.calls
           /\ thrown' = r.thrown
           /\ returned' = IF r.thrown = "" THEN r.returned ELSE returned
    /\ UNCHANGED <<pc, call, stubs, stub, bound, data, emitted, nValidate>>
    /\ UNCHANGED <<callerVars, wrapper, refs, pairVars>>

NextWrapper ==
    \/ CallGetTemplateComponentForExposedFunction
    \/ MountWrapper
    \/ ClickWrapper

SpecWrapper == Init /\ [][NextWrapper]_vars

(***************************************************************************)
(* One generator called twice with the same arguments, and instances       *)
(* mounted from the two descriptors.  The objects data() returns live in a *)
(* heap; an instance holds the reference to its own.                       *)
(***************************************************************************)
\* A variant of DataCall that hands every instance the object of the first.
DataCallShared(h, d) ==
    IF Len(h) = 0 THEN [heap |-> Append(h, d.data), ref |-> Len(h) + 1]
    ELSE [heap |-> h, ref |-> 1]

\* data () { return { validateCalled: false }; }: a new object per call.
DataCall(h, d) == [heap |-> Append(h, d.data), ref |-> Len(h) + 1]

Instance(from, ref, n) == [from |-> from, data |-> ref, nValidate |-> n]

\* The descriptor instance i was mounted from.
DescriptorOf(i) == pair[instances[i].from][call.componentName]

CalledTwice(c, d1, d2) ==
    /\ pc' = "pair"
    /\ call' = c
    /\ pair' = <<StubFor(c.componentName, d1), StubFor(c.componentName, d2)>>
    /\ UNCHANGED <<stubs, stub, bound, data, clicks, emitted, returned, nValidate>>
    /\ UNCHANGED <<callerVars, wrapperVars, heap, instances, twins>>

CallGetExposedValidateStubTwice ==
    /\ pc = "start"
    /\ \E n \in ComponentNames, isValid \in IsValidArgs :
           CalledTwice(Call("getExposedValidateStub", n, "", <<>>, <<>>, isValid, <<>>),
                       getExposedValidateStub(n, isValid),
                       getExposedValidateStub(n, isValid))

CallGetExposedValidateStubWithPropsTwice ==
    /\ pc = "start"
    /\ \E n \in ComponentNames, isValid \in IsValidArgs, ps \in SmallPropLists :
           CalledTwice(Call("getExposedValidateStubWithProps", n, "", <<>>, <<>>, isValid, ps),
                       getExposedValidateStubWithProps(n, isValid, ps),
                       getExposedValidateStubWithProps(n, isValid, ps))

\* The host mounts one more instance of one of the two descriptors.
MountFrom ==
    /\ pc = "pair"
    /\ Len(instances) < MaxInstances
    /\ \E k \in 1..2 :
          LET r == DataCall(heap, pair[k][call.componentName])
          IN  /\ heap' = r.heap
              /\ instances' = Append(instances, Instance(k, r.ref, 0))
    /\ UNCHANGED <<pc, call, stubs, stub, bound, data, clicks, emitted, returned, nValidate>>
    /\ UNCHANGED <<callerVars, wrapperVars, pair, twins>>

\* A method of instance i is called: this.$data is the instance's own object.
InvokeOn(i, name) ==
    /\ \E m \in DescriptorOf(i).methods :
          /\ m.name = name
          /\ heap' = IF m.flags
                     THEN [heap EXCEPT ![instances[i].data].validateCalled = TRUE]
                     ELSE heap
          /\ returned' = m.result
    /\ UNCHANGED <<pc, call, stubs, stub, bound, data, clicks, emitted, nValidate>>
    /\ UNCHANGED <<callerVars, wrapperVars, pair, twins>>

ValidateOn ==
    /\ pc = "pair"
    /\ \E i \in 1..Len(instances) :
          /\ instances[i].nValidate < MaxCalls
          /\ InvokeOn(i, "validate")
          /\ instances' = [instances EXCEPT ![i].nValidate = @ + 1]

ResetValidationOn ==
    /\ pc = "pair"
    /\ \E i \in 1..Len(instances) :
          /\ InvokeOn(i, "resetValidation")
          /\ UNCHANGED instances

NextPair ==
    \/ CallGetExposedValidateStubTwice
    \/ CallGetExposedValidateStubWithPropsTwice
    \/ MountFrom
    \/ ValidateOn
    \/ ResetValidationOn

SpecPair == Init /\ [][NextPair]_vars

(***************************************************************************)
(* The caller keeps the array it gave to getEmittingStubWithProps or       *)
(* getMultiEmittingStubWithProps, and may push onto it later.              *)
(***************************************************************************)
LateValue == Str("late")
LateEvent == EmittedEvent("late", TRUE, Str("lateData"))

Push ==
    /\ pc \in {"generated", "mounted"}
    /\ \/ /\ call.gen = "getEmittingStubWithProps"
          /\ Len(owned.emittedValues) < Len(call.emittedValues) + MaxAppends
          /\ owned' = [owned EXCEPT !.emittedValues = Append(@, LateValue)]
       \/ /\ call.gen = "getMultiEmittingStubWithProps"
          /\ Len(owned.events) < Len(call.events) + MaxAppends
          /\ owned' = [owned EXCEPT !.events = Append(@, LateEvent)]
    /\ UNCHANGED <<pc, call, stubs, stub, bound, data, clicks, emitted, returned, nValidate>>
    /\ UNCHANGED <<pending, view, wrapperVars, pairVars>>

\* Every generator, with the caller free to push onto its arrays.
NextShared ==
    \/ Next
    \/ NextWrapper
    \/ Push

SpecShared == Init /\ [][NextShared]_vars

(***************************************************************************)
(* Two stubs side by side, mounted and driven through the same operations: *)
(* a props-aware generator called without property identifiers next to its *)
(* props-less counterpart, or one validate generator called with two       *)
(* different isValid arguments.                                            *)
(***************************************************************************)
TwinCall(kind, gens, componentName, emittedEvent, emittedValues, isValids, props) ==
    [gen |-> kind, gens |-> gens, componentName |-> componentName,
     emittedEvent |-> emittedEvent, emittedValues |-> emittedValues,
     isValids |-> isValids, props |-> props]

\* A mounted instance: its data, what it has emitted and what the last call
\* of one of its methods returned.
Twin(d, e, r) == [data |-> d, emitted |-> e, returned |-> r]

\* The descriptor twin k is mounted from.
TwinDescriptor(k) == pair[k][call.componentName]

CalledTwins(c, d1, d2) ==
    /\ pc' = "twins"
    /\ call' = c
    /\ pair' = <<StubFor(c.componentName, d1), StubFor(c.componentName, d2)>>
    /\ UNCHANGED <<stubs, stub, bound, data, clicks, emitted, returned, nValidate>>
    /\ UNCHANGED <<callerVars, wrapperVars, heap, instances, twins>>

CallEmittingStubsWithoutProps ==
    /\ pc = "start"
    /\ \E n \in ComponentNames, e \in EventNames, vals \in EmittedValueLists :
           CalledTwins(TwinCall("withoutProps",
                                <<"getEmittingStubWithProps", "getEmittingStub">>,
                                n, e, vals, <<Undef, Undef>>, <<>>),
                       getEmittingStubWithProps(n, e, vals, <<>>),
                       getEmittingStub(n, e, vals))

CallExposedValidateStubsWithoutProps ==
    /\ pc = "start"
    /\ \E n \in ComponentNames, isValid \in IsValidArgs :
           CalledTwins(TwinCall("withoutProps",
                                <<"getExposedValidateStubWithProps", "getExposedValidateStub">>,
                                n, "", <<>>, <<isValid, isValid>>, <<>>),
                       getExposedValidateStubWithProps(n, isValid, <<>>),
                       getExposedValidateStub(n, isValid))

CallGetExposedValidateStubDiffering ==
    /\ pc = "start"
    /\ \E n \in ComponentNames, v1 \in IsValidArgs, v2 \in IsValidArgs :
          /\ v1 # v2
          /\ CalledTwins(TwinCall("differingIsValid",
                                  <<"getExposedValidateStub", "getExposedValidateStub">>,
                                  n, "", <<>>, <<v1, v2>>, <<>>),
                         getExposedValidateStub(n, v1),
                         getExposedValidateStub(n, v2))

CallGetExposedValidateStubWithPropsDiffering ==
    /\ pc = "start"
    /\ \E n \in ComponentNames, v1 \in IsValidArgs, v2 \in IsValidArgs,
          ps \in SmallPropLists :
          /\ v1 # v2
          /\ CalledTwins(TwinCall("differingIsValid",
                                  <<"getExposedValidateStubWithProps",
                                    "getExposedValidateStubWithProps">>,
                                  n, "", <<>>, <<v1, v2>>, ps),
                         getExposedValidateStubWithProps(n, v1, ps),
                         getExposedValidateStubWithProps(n, v2, ps))

\* The host mounts an instance of each descriptor.
MountTwins ==
    /\ pc = "twins"
    /\ pc' = "twinsMounted"
    /\ twins' = [k \in 1..2 |-> Twin(TwinDescriptor(k).data, <<>>, Undef)]
    /\ UNCHANGED <<call, stubs, stub, bound, data, clicks, emitted, returned, nValidate>>
    /\ UNCHANGED <<callerVars, wrapperVars, pair, heap, instances>>

\* The controls of twin k.
TwinButtons(k) == RenderButtons(TwinDescriptor(k).template, twins[k].data)

\* Control i is activated on each twin that has it.
ClickTwins ==
    /\ pc = "twinsMounted"
    /\ Len(clicks) < MaxClicks
    /\ \E i \in 1..Len(TwinButtons(1) \o TwinButtons(2)) :
          /\ \E k \in 1..2 : i <= Len(TwinButtons(k))
          /\ clicks' = Append(clicks, i)
          /\ twins' = [k \in 1..2 |->
                         IF i <= Len(TwinButtons(k))
                         THEN [twins[k] EXCEPT !.emitted =
                                  Append(@, ClickEmits(TwinDescriptor(k).template,
                                                       twins[k].data, i))]
                         ELSE twins[k]]
    /\ UNCHANGED <<pc, call, stubs, stub, bound, data, emitted, returned, nValidate>>
    /\ UNCHANGED <<callerVars, wrapperVars, pair, heap, instances>>

\* Twin k after a call of its method of that name; calling a method it does
\* not have throws.
TwinAfter(k, name) ==
    LET ms == {m \in TwinDescriptor(k).methods : m.name = name}
    IN  IF ms = {} THEN [twins[k] EXCEPT !.returned = [t |-> "TypeError"]]
        ELSE LET m == CHOOSE m \in ms : TRUE
             IN  [twins[k] EXCEPT
                     !.data = IF m.flags THEN [@ EXCEPT !.validateCalled = TRUE] ELSE @,
                     !.returned = m.result]

\* The method of that name is called on both twins.
InvokeTwins(name) ==
    /\ pc = "twinsMounted"
    /\ \E k \in 1..2 : \E m \in TwinDescriptor(k).methods : m.name = name
    /\ twins' = [k \in 1..2 |-> TwinAfter(k, name)]
    /\ UNCHANGED <<pc, call, stubs, stub, bound, data, clicks, emitted, returned>>
    /\ UNCHANGED <<callerVars, wrapperVars, pair, heap, instances>>

ValidateTwins ==
    /\ nValidate < MaxCalls
    /\ InvokeTwins("validate")
    /\ nValidate' = nValidate + 1

ResetTwins == InvokeTwins("reset") /\ UNCHANGED nValidate

ResetValidationTwins == InvokeTwins("resetValidation") /\ UNCHANGED nValidate

NextTwins ==
    \/ CallEmittingStubsWithoutProps
    \/ CallExposedValidateStubsWithoutProps
    \/ CallGetExposedValidateStubDiffering
    \/ CallGetExposedValidateStubWithPropsDiffering
    \/ MountTwins
    \/ ClickTwins
    \/ ValidateTwins
    \/ ResetTwins
    \/ ResetValidationTwins

SpecTwins == Init /\ [][NextTwins]_vars

(***************************************************************************)
(* Properties.                                                             *)
(***************************************************************************)
PropsAware ==
    {"getStubWithProps", "getEmittingStubWithProps",
     "getMultiEmittingStubWithProps", "getExposedValidateStubWithProps"}

Built == pc \in {"generated", "mounted"}
Mounted == pc = "mounted"

\* The value the caller bound to declared property i.
BoundValue(i) == bound[PropKey(call.props[i])]
\* What the mounted instance renders for declared property i.
Rendered(i) == RenderFragment(stub.template.items[i], bound)
LabelOf(i) == stub.template.items[i].label

\* Whether every element of an array is callable.
EveryFunction(v) == \A i \in 1..Len(v.items) : v.items[i].t = "function"

\* An identifier with every hyphen removed and the character after each
\* hyphen upper-cased, left to right.
RECURSIVE HyphensRemoved(_, _)
HyphensRemoved(s, i) ==
    IF i > Len(s) THEN <<>>
    ELSE IF s[i] # "-" THEN <<s[i]>> \o HyphensRemoved(s, i + 1)
    ELSE IF i < Len(s) THEN <<ToUpperCase(s[i + 1])>> \o HyphensRemoved(s, i + 2)
    ELSE <<>>

\* C1: in the markup of every props-aware stub, the identifier embedded for a
\* hyphenated property, as label and as binding expression, is the input with
\* every hyphen removed and the following character upper-cased, and so holds
\* no hyphen.
C1_EveryHyphenRemoved ==
    (Built /\ call.gen \in PropsAware) =>
        \A i \in 1..Len(call.props) :
            Includes(call.props[i], "-") =>
                /\ stub.template.items[i].label = HyphensRemoved(call.props[i], 1)
                /\ stub.template.items[i].expr = HyphensRemoved(call.props[i], 1)
                /\ ~Includes(stub.template.items[i].label, "-")

\* JSON.stringify of a string, a number, a boolean, null, or an array or
\* object of them, written out for the claims.
RECURSIVE JSONText(_), JSONTextFrom(_, _)
JSONText(v) ==
    CASE v.t = "string" -> <<"\"", v.s, "\"">>
      [] v.t = "number" -> <<ToString(v.n)>>
      [] v.t = "boolean" -> <<IF v.b THEN "true" ELSE "false">>
      [] v.t = "array" ->
            <<"[">> \o JSONTextFrom([i \in 1..Len(v.items) |->
                                        IF v.items[i].t \in {"function", "undefined"}
                                        THEN <<"null">> ELSE JSONText(v.items[i])], 1)
                    \o <<"]">>
      [] v.t = "object" ->
            <<"{">> \o JSONTextFrom([i \in 1..Len(v.entries) |->
                                        <<"\"", v.entries[i].k, "\"", ":">>
                                        \o JSONText(v.entries[i].v)], 1)
                    \o <<"}">>
      [] OTHER -> <<"null">>
JSONTextFrom(parts, i) ==
    IF i > Len(parts) THEN <<>>
    ELSE (IF i > 1 THEN <<",">> ELSE <<>>) \o parts[i] \o JSONTextFrom(parts, i + 1)

\* C2: a property bound to an array that is not made up entirely of callables
\* (mixed arrays included), or to a plain object, renders as
\* <label>-<JSON of the value itself>.
C2_NonCallableArrayOrObjectAsJSON ==
    (Mounted /\ call.gen \in PropsAware) =>
        \A i \in 1..Len(call.props) :
            LET v == BoundValue(i)
            IN  (\/ v.t = "array" /\ ~EveryFunction(v)
                 \/ v.t = "object") =>
                    Rendered(i) = LabelOf(i) \o <<"-">> \o JSONText(v)

NaturalString(v) ==
    CASE v.t = "string" -> <<v.s>>
      [] v.t = "number" -> <<ToString(v.n)>>
      [] v.t = "boolean" -> <<IF v.b THEN "true" ELSE "false">>

C6_PropsListIsCallerSequence ==
    (Built /\ call.gen \in PropsAware) =>
        /\ "props" \in stub.keys
        /\ Len(stub.props) = Len(call.props)
        /\ \A i \in 1..Len(call.props) : stub.props[i] = call.props[i]

\* C6's case: two identifiers, the first hyphenated, kept hyphenated in the
\* props list while the markup holds its normalised form.
C6_Witness ==
    /\ Built /\ call.gen \in PropsAware
    /\ Len(call.props) = 2
    /\ call.props[1] = <<"a", "-", "b">>
    /\ call.props[2] = <<"a">>
    /\ stub.props[1] = <<"a", "-", "b">>
    /\ stub.template.items[1].label = <<"a", "B">>

\* C7: every activation of a getEmittingStub control emits the named event
\* once, with exactly the supplied values in order as its arguments; after k
\* activations there are k such emissions and no other.
C7_EmittingStubEmitsValues ==
    (Mounted /\ call.gen = "getEmittingStub") =>
        /\ Len(emitted) = Len(clicks)
        /\ \A j \in 1..Len(emitted) :
              /\ emitted[j].name = call.emittedEvent
              /\ emitted[j].args = call.emittedValues

\* C7's case: two activations of a stub given three values.
C7_Witness ==
    /\ Mounted /\ call.gen = "getEmittingStub"
    /\ Len(call.emittedValues) = 3
    /\ Len(clicks) = 2
    /\ Len(emitted) = 2

\* C8: the emissions of a getMultiEmittingStubWithProps stub are, in
\* activation order, one per activation, named after the activated control's
\* event spec and carrying exactly one argument: the spec's value, or
\* undefined when it has none.
C8_MultiEmitsOneArgument ==
    (Mounted /\ call.gen = "getMultiEmittingStubWithProps") =>
        /\ Len(emitted) = Len(clicks)
        /\ \A j \in 1..Len(emitted) :
              LET ev == call.events[clicks[j]]
              IN  /\ emitted[j].name = ev.name
                  /\ Len(emitted[j].args) = 1
                  /\ emitted[j].args[1] = (IF ev.has THEN ev.value ELSE Undef)

\* C8's case: the first control, then the second, whose spec has no value.
C8_Witness ==
    /\ Mounted /\ call.gen = "getMultiEmittingStubWithProps"
    /\ clicks = <<1, 2>>
    /\ ~call.events[2].has
    /\ emitted[1].name = "save"
    /\ emitted[2] = [name |-> "cancel", args |-> <<Undef>>]

\* C9: a getMultiEmittingStubWithProps stub renders one control per event
\* spec, in order, control i labelled with spec i's name; none for an empty
\* event sequence.
C9_OneControlPerEvent ==
    (Mounted /\ call.gen = "getMultiEmittingStubWithProps") =>
        LET buttons == RenderButtons(stub.template, data)
        IN  /\ Len(buttons) = Len(call.events)
            /\ \A i \in 1..Len(call.events) : buttons[i] = call.events[i].name

\* C9's case: two specs with different names.
C9_Witness ==
    /\ Mounted /\ call.gen = "getMultiEmittingStubWithProps"
    /\ Len(call.events) = 2
    /\ call.events[1].name # call.events[2].name
    /\ RenderButtons(stub.template, data) = <<"cancel", "save">>

\* C10: a mounted exposed-validate stub renders the marker
\* <componentName>-stub-validated-false before its validator is invoked and
\* <componentName>-stub-validated-true after the first invocation.
C10_MarkerTracksValidate ==
    (Mounted /\ call.gen \in {"getExposedValidateStub", "getExposedValidateStubWithProps"}) =>
        RenderMarker(stub.template, data) =
            <<call.componentName, "-stub", "-validated-",
              IF nValidate = 0 THEN "false" ELSE "true">>

\* C10's case: the validator was invoked, then resetValidation was called.
C10_Witness ==
    /\ Mounted
    /\ call.gen \in {"getExposedValidateStub", "getExposedValidateStubWithProps"}
    /\ nValidate = 2
    /\ returned = Undef
    /\ RenderMarker(stub.template, data) = <<call.componentName, "-stub", "-validated-", "true">>

ValidateExposing == {"getExposedValidateStub", "getExposedValidateStubWithProps"}
Emitting == {"getEmittingStub", "getEmittingStubWithProps"}

\* C11: every invocation of the validator of a getExposedValidateStub or
\* getExposedValidateStubWithProps stub, the first as any later one, returns
\* a result whose valid field is the isValid flag given at generation (true
\* when the flag was omitted) and whose errors sequence is empty.
C11_ValidatorReturnsIsValid ==
    [][(call.gen \in ValidateExposing /\ nValidate' = nValidate + 1) =>
          /\ returned'.valid = (IF call.isValid = Undef THEN TRUE ELSE call.isValid.b)
          /\ returned'.errors = <<>>]_vars

\* C11's case: the second invocation of a validator generated with false.
C11_Witness ==
    /\ Mounted /\ call.gen \in ValidateExposing
    /\ call.isValid = Bool(FALSE)
    /\ nValidate = 2
    /\ returned = [t |-> "Validated", valid |-> FALSE, errors |-> <<>>]

WrapperBuilt == pc \in {"wrapped", "wrapperMounted"}
WrapperMounted == pc = "wrapperMounted"

\* C13: for a mounted wrapper whose embedded component has the named method,
\* each activation of the control invokes that method exactly once, with no
\* arguments, on the instance held under the reference, and the handler
\* returns nothing; k activations make exactly k invocations.
C13_EachActivationInvokesOnce ==
    (/\ WrapperMounted
     /\ \E m \in call.componentAlias.methods : m.name = call.exposedFn) =>
        /\ Len(invoked) = Len(clicks)
        /\ \A j \in 1..Len(invoked) :
              invoked[j] = [on |-> refs.ref.id, method |-> call.exposedFn, args |-> <<>>]
        /\ returned = Undef
        /\ thrown = ""

\* C13's case: two activations for a method that returns a value.
C13_Witness ==
    /\ WrapperMounted
    /\ call.exposedFn = "testMethod"
    /\ \E m \in call.componentAlias.methods :
          m.name = "testMethod" /\ m.result = Str("called")
    /\ Len(clicks) = 2
    /\ Len(invoked) = 2
    /\ returned = Undef

\* The suffix the claim gives for each generator.
SuffixOf(gen) ==
    CASE gen = "getStub" -> "-stub"
      [] gen = "getStubWithProps" -> "-stubWithProps"
      [] gen = "getEmittingStub" -> "-emittingStub"
      [] gen = "getEmittingStubWithProps" -> "-emittingStubWithProps"
      [] gen = "getMultiEmittingStubWithProps" -> "-multiEmittingStubWithProps"
      [] gen = "getExposedValidateStub" -> "-exposedValidateStub"
      [] gen = "getExposedValidateStubWithProps" -> "-exposedValidateStubWithProps"

\* C14: each of the seven stub generators returns a dictionary with exactly
\* one key, the supplied component name, whose descriptor's name is
\* <componentName>-<suffix>, the suffix fixed per generator.
C14_OneKeyNamedBySuffix ==
    Built =>
        /\ DOMAIN stubs = {call.componentName}
        /\ stubs[call.componentName].name =
              <<call.componentName, SuffixOf(call.gen)>>

\* C14's case: the generator of the longest suffix.
C14_Witness ==
    /\ Built /\ call.gen = "getMultiEmittingStubWithProps"
    /\ DOMAIN stubs = {"TestComponent"}
    /\ stubs["TestComponent"].name = <<"TestComponent", "-multiEmittingStubWithProps">>

\* C15: the descriptor getTemplateComponentForExposedFunction returns is
\* named after the embedded component: its name, then -withExposedFunction.
C15_NamedAfterEmbeddedComponent ==
    WrapperBuilt =>
        wrapper.name = <<call.componentAlias.name, "-withExposedFunction">>

\* C16: getStub(n) returns a dictionary with exactly one key n, whose
\* descriptor is named n-stub, has the template <div>n-stub</div> and no
\* props, data or methods; mounted, it renders exactly the text n-stub.
C16_BasicStub ==
    (Built /\ call.gen = "getStub") =>
        LET n == call.componentName
        IN  /\ DOMAIN stubs = {n}
            /\ stubs[n].name = <<n, "-stub">>
            /\ stubs[n].template.marker = <<n, "-stub">>
            /\ ~stubs[n].template.flag
            /\ ~stubs[n].template.list
            /\ stubs[n].template.button.kind = "none"
            /\ stubs[n].keys \cap {"props", "data", "methods"} = {}
            /\ Mounted => RenderText(stub.template, data, bound) = <<n, "-stub">>

\* C16's case: a mounted basic stub.
C16_Witness ==
    /\ Mounted /\ call.gen = "getStub"
    /\ call.componentName = "MyComponent"
    /\ RenderText(stub.template, data, bound) = <<"MyComponent", "-stub">>

\* C17: in every state of every mounted stub variant the rendered marker
\* begins with <componentName>-stub; for the two validation-exposing
\* variants it is <componentName>-stub-validated-<validateCalled>.
C17_MarkerBeginsWithNameStub ==
    Mounted =>
        LET marker == RenderMarker(stub.template, data)
        IN  /\ Len(marker) >= 2
            /\ marker[1] = call.componentName
            /\ marker[2] = "-stub"
            /\ call.gen \in ValidateExposing =>
                  marker = <<call.componentName, "-stub", "-validated-",
                             IF data.validateCalled THEN "true" ELSE "false">>

\* C17's case: an emitting stub after an activation and a validator call.
C17_Witness ==
    /\ Mounted /\ call.gen = "getEmittingStubWithProps"
    /\ Len(clicks) = 1
    /\ nValidate = 1
    /\ RenderMarker(stub.template, data) = <<call.componentName, "-stub">>

\* The validate-called flag of instance i.
FlagOf(i) == heap[instances[i].data].validateCalled

\* C18: two calls of one generator with the same arguments give descriptors
\* with equal markup and equal property lists, and the instances mounted
\* from them are independent: the validate-called flag of an instance is
\* true only if the validator was invoked on that very instance.
C18_InstancesIndependent ==
    pc = "pair" =>
        /\ pair[1][call.componentName].template = pair[2][call.componentName].template
        /\ pair[1][call.componentName].props = pair[2][call.componentName].props
        /\ \A i \in 1..Len(instances) : FlagOf(i) = (instances[i].nValidate > 0)

\* C18's case: the validator was invoked on the first of three instances;
\* the second is of the other descriptor, the third of the same.
C18_Witness ==
    /\ pc = "pair"
    /\ Len(instances) = 3
    /\ instances[1].from = 1 /\ instances[2].from = 2 /\ instances[3].from = 1
    /\ instances[1].nValidate = 1
    /\ instances[2].nValidate = 0 /\ instances[3].nValidate = 0
    /\ FlagOf(1) /\ ~FlagOf(2) /\ ~FlagOf(3)

\* C19: with a props record, the wrapper's markup binds :key="key" for each
\* key of the record, in key order, and the wrapper's props holds exactly
\* those keys, each mapped to an empty object whatever the record's value;
\* without one, the markup has no binding and the props are empty.
C19_WrapperBindsEachKey ==
    WrapperBuilt =>
        IF call.props.t = "object"
        THEN LET entries == call.props.entries
             IN  /\ Len(wrapper.template.bindings) = Len(entries)
                 /\ \A i \in 1..Len(entries) :
                       wrapper.template.bindings[i] =
                           [attr |-> entries[i].k, expr |-> entries[i].k]
                 /\ DOMAIN wrapper.props = {entries[i].k : i \in 1..Len(entries)}
                 /\ \A k \in DOMAIN wrapper.props : wrapper.props[k] = Obj(<<>>)
        ELSE /\ wrapper.template.bindings = <<>>
             /\ DOMAIN wrapper.props = {}

\* C19's case: a record of two keys, count before value.
C19_Witness ==
    /\ WrapperBuilt
    /\ call.props.t = "object"
    /\ Len(call.props.entries) = 2
    /\ call.props.entries[1].k = "count"
    /\ wrapper.template.bindings[1].attr = "count"
    /\ wrapper.template.bindings[2].attr = "value"
    /\ wrapper.props["count"] = Obj(<<>>)

\* C20: the markup propertiesWithValues returns is, in input order, exactly
\* one fragment per input element and nothing else; it is empty for an empty
\* sequence.
C20_OneFragmentPerElementInOrder ==
    (Built /\ call.gen \in PropsAware) =>
        /\ stub.template.list
        /\ Len(stub.template.items) = Len(call.props)
        /\ \A i \in 1..Len(call.props) :
              stub.template.items[i] =
                  [label |-> NormalizeProp(call.props[i]),
                   expr |-> NormalizeProp(call.props[i])]
        /\ call.props = <<>> => stub.template.items = <<>>

\* C20's case: two different elements, the hyphenated one second.
C20_Witness ==
    /\ Built /\ call.gen \in PropsAware
    /\ call.props = << <<"b">>, <<"a", "-", "b">> >>
    /\ stub.template.items[1].label = <<"b">>
    /\ stub.template.items[2].label = <<"a", "B">>

\* The elements of a property list that are strings.
StringElements(props) == {i \in 1..Len(props) : IsString(props[i])}

\* C21: the markup of a props-aware stub holds list items for the string
\* identifiers only: none for an inline object among them.
C21_NoListItemForObject ==
    (Built /\ call.gen \in PropsAware) =>
        /\ Len(stub.template.items) = Cardinality(StringElements(call.props))
        /\ \A i \in 1..Len(stub.template.items) :
              stub.template.items[i].label # <<"[object Object]">>

\* C23: while the caller holds a result of the validator of an
\* exposed-validate stub that it has not awaited, the validate-called flag is
\* already true: the flag flips in the call itself.
C23_FlagSetWhenCallReturns ==
    (Mounted /\ call.gen \in ValidateExposing /\ pending > 0) =>
        data.validateCalled

\* C23's case: the validator was called once and its result is not awaited.
C23_Witness ==
    /\ Mounted /\ call.gen = "getExposedValidateStub"
    /\ nValidate = 1
    /\ pending = 1
    /\ returned.t = "Validated"
    /\ data.validateCalled

\* Whether the embedded component has the method the wrapper names.
MethodExists == \E m \in call.componentAlias.methods : m.name = call.exposedFn

\* C24: activating the control of a wrapper whose embedded instance lacks
\* the named method fails with the error of calling a missing member; the
\* handler neither checks nor catches, and no method of the instance is
\* invoked, at the first activation as at any later one.
C24_MissingMethodThrows ==
    (WrapperMounted /\ ~MethodExists) =>
        /\ invoked = <<>>
        /\ returned = Undef
        /\ thrown = (IF Len(clicks) > 0 THEN "TypeError" ELSE "")

\* C24's case: two activations for a method the component does not have.
C24_Witness ==
    /\ WrapperMounted
    /\ call.componentAlias.name = "ChildComponent"
    /\ call.exposedFn = "testMethod"
    /\ Len(clicks) = 2
    /\ thrown = "TypeError"
    /\ invoked = <<>>

\* C25: the descriptor of getMultiEmittingStubWithProps has no methods: no
\* validate, reset or resetValidation can be called on its instances.
C25_MultiEmittingHasNoMethods ==
    (Built /\ call.gen = "getMultiEmittingStubWithProps") =>
        /\ "methods" \notin stub.keys
        /\ stub.methods = {}
        /\ ~ENABLED Validate
        /\ ~ENABLED Reset
        /\ ~ENABLED ResetValidation
        /\ nValidate = 0
        /\ returned = Undef

\* C25's case: a mounted multi-emitting stub after two activations.
C25_Witness ==
    /\ Mounted /\ call.gen = "getMultiEmittingStubWithProps"
    /\ Len(emitted) = 2
    /\ stub.methods = {}

\* C27: on an instance of an exposed-validate stub the validate-called flag
\* starts false, is changed only by an invocation of the validator, and once
\* true stays true; resetValidation leaves the flag and the rendered marker
\* as they are.
C27_FlagMonotonic ==
    /\ []((Mounted /\ call.gen \in ValidateExposing /\ nValidate = 0) =>
            ~data.validateCalled)
    /\ [][(Mounted /\ call.gen \in ValidateExposing) =>
            /\ data.validateCalled => data'.validateCalled
            /\ data'.validateCalled # data.validateCalled =>
                  nValidate' = nValidate + 1
            /\ ResetValidation =>
                  /\ data' = data
                  /\ RenderMarker(stub'.template, data') =
                        RenderMarker(stub.template, data)]_vars

\* C27's case: resetValidation was called after the validator, and the flag
\* is still true.
C27_Witness ==
    /\ Mounted /\ call.gen = "getExposedValidateStubWithProps"
    /\ nValidate = 1
    /\ returned = Undef
    /\ data.validateCalled

TwinsMounted == pc = "twinsMounted"
TwinMarker(k) == RenderMarker(TwinDescriptor(k).template, twins[k].data)

\* C22: a props-aware variant called with no property identifier and its
\* props-less counterpart, driven through the same operations, have emitted
\* the same events with the same arguments, returned the same method
\* results and hold the same validate-called flag in every state.
C22_WithoutPropsAsPropsLess ==
    (TwinsMounted /\ call.gen = "withoutProps") =>
        /\ twins[1].emitted = twins[2].emitted
        /\ twins[1].returned = twins[2].returned
        /\ twins[1].returned # [t |-> "TypeError"]
        /\ twins[1].data.validateCalled = twins[2].data.validateCalled
        /\ TwinButtons(1) = TwinButtons(2)
        /\ {m.name : m \in TwinDescriptor(1).methods} =
              {m.name : m \in TwinDescriptor(2).methods}

\* C22's case: the emitting pair after two activations and a validator call
\* on each.
C22_Witness ==
    /\ TwinsMounted /\ call.gen = "withoutProps"
    /\ call.gens[1] = "getEmittingStubWithProps"
    /\ Len(call.emittedValues) = 3
    /\ Len(twins[1].emitted) = 2
    /\ Len(twins[2].emitted) = 2
    /\ twins[1].returned = [t |-> "Validated", valid |-> TRUE, errors |-> <<>>]

\* C28: two stubs of one validate generator that differ only in isValid,
\* driven through the same validator and resetValidation calls, render the
\* same marker in every state.
C28_IsValidNotRendered ==
    (TwinsMounted /\ call.gen = "differingIsValid") =>
        /\ TwinMarker(1) = TwinMarker(2)
        /\ TwinDescriptor(1).template = TwinDescriptor(2).template

\* C28's case: one validator passes and the other fails, and both markers
\* end with true.
C28_Witness ==
    /\ TwinsMounted /\ call.gen = "differingIsValid"
    /\ nValidate = 1
    /\ twins[1].returned.t = "Validated" /\ twins[2].returned.t = "Validated"
    /\ twins[1].returned.valid /\ ~twins[2].returned.valid
    /\ TwinMarker(1) = <<call.componentName, "-stub", "-validated-", "true">>
    /\ TwinMarker(2) = <<call.componentName, "-stub", "-validated-", "true">>

\* The contents of the objects the generator was called with.
Arguments ==
    IF call.gen = "getTemplateComponentForExposedFunction"
    THEN [props |-> <<>>, emittedValues |-> <<>>, events |-> <<>>, record |-> call.props]
    ELSE [props |-> call.props, emittedValues |-> call.emittedValues,
          events |-> call.events, record |-> Undef]

Controls == RenderButtons(stub.template, Seen(data, owned, view))

\* C29: an activation of a getEmittingStubWithProps stub emits the present
\* contents of the caller's value array; a getMultiEmittingStubWithProps
\* stub renders one control per event spec the caller's array holds when it
\* renders, and an activation emits the name and value of that spec.
C29_ReadsCallersSequence ==
    [][/\ (call.gen = "getEmittingStubWithProps" /\ Len(emitted') = Len(emitted) + 1) =>
             emitted'[Len(emitted')] =
                 [name |-> call.emittedEvent, args |-> owned.emittedValues]
       /\ (/\ call'.gen = "getMultiEmittingStubWithProps"
           /\ pc' = "mounted"
           /\ (pc = "generated" \/ bound' # bound)) =>
             Controls' = [i \in 1..Len(owned.events) |-> owned.events[i].name]
       /\ (call.gen = "getMultiEmittingStubWithProps" /\ Len(emitted') = Len(emitted) + 1) =>
             LET i == clicks'[Len(clicks')]
             IN  /\ i <= Len(Controls)
                 /\ emitted'[Len(emitted')].name = Controls[i]
                 /\ \E j \in 1..Len(owned.events) :
                       /\ owned.events[j].name = Controls[i]
                       /\ emitted'[Len(emitted')].args = <<EventValue(owned.events[j])>>
      ]_vars

\* C29's case: the caller pushed a value after the generator returned, and
\* the activation that followed emitted it with the others.
C29_Witness ==
    /\ Mounted /\ call.gen = "getEmittingStubWithProps"
    /\ Len(call.emittedValues) = 3
    /\ Len(owned.emittedValues) = 4
    /\ Len(emitted) >= 1
    /\ emitted[Len(emitted)].args = owned.emittedValues
    /\ emitted[Len(emitted)].args # call.emittedValues

====
